---- MODULE Spec2Model ----
(***************************************************************************)
(* Model of the virtual-memory subsystem of adeline-os:                    *)
(*   src/src/pagetable/memory_map.rs  (MemoryRegions registry)             *)
(*   src/src/pagetable/sv48.rs        (Sv48 page table, Entry, BigPage)    *)
(*   src/src/hwinfo.rs                (PhysicalAddressRange::big_pages)    *)
(*                                                                         *)
(* A u64 is modelled bit-exactly as the set of its set bit positions, a    *)
(* subset of 0..63, so that masks, shifts and 64-bit wrap-around are the   *)
(* ones of the machine. Region bounds, which the registry only compares,   *)
(* are small naturals.                                                     *)
(***************************************************************************)
EXTENDS Integers, Sequences, FiniteSets, TLC

----------------------------------------------------------------------------
(* Bounds of the model. *)

\* region bounds are drawn from 0..MaxAddr
MaxAddr == 3
\* no add call is made that would store more than MaxRegions regions
MaxRegions == 3
\* at most MaxOps mapping calls are made on a PageTableRoot
MaxOps == 2

----------------------------------------------------------------------------
(* 64-bit words as sets of bit positions. *)

U64Bits == 0..63

\* basic_consts::BITS_n, the n low bits set: (1 << n) - 1
BITS(n) == 0..(n - 1)

\* 1 << n
Bit(n) == {n}

\* a & b
BitAnd(a, b) == a \cap b

\* a | b
BitOr(a, b) == a \cup b

\* !a
BitNot(a) == U64Bits \ a

\* a << n (bits shifted out of the word are lost)
Shl(a, n) == {i + n : i \in {j \in a : j + n <= 63}}

\* a >> n
Shr(a, n) == {i - n : i \in {j \in a : j >= n}}

\* a < b, unsigned: the highest bit on which they differ is set in b
Lt(a, b) == \E i \in b \ a : \A j \in a \ b : j < i

\* a <= b
Le(a, b) == a = b \/ Lt(a, b)

RECURSIVE AddCarry(_, _, _, _)
\* bits i..63 of a + b + carry, ripple carry; the carry out of bit 63 is dropped
AddCarry(a, b, i, c) ==
    IF i > 63 THEN {}
    ELSE LET s == (IF i \in a THEN 1 ELSE 0) + (IF i \in b THEN 1 ELSE 0) + c
         IN  (IF s % 2 = 1 THEN {i} ELSE {}) \cup AddCarry(a, b, i + 1, s \div 2)

\* a.wrapping_add(b)
WrappingAdd(a, b) == AddCarry(a, b, 0, 0)

\* a.wrapping_sub(b) = a + !b + 1
WrappingSub(a, b) == AddCarry(a, BitNot(b), 0, 1)

\* a + b overflows 64 bits
AddOverflows(a, b) == Lt(WrappingAdd(a, b), a)

RECURSIVE ToNat(_)
\* the number a word denotes (used for words below 2^31 only)
ToNat(a) ==
    IF a = {} THEN 0
    ELSE LET i == CHOOSE j \in a : \A k \in a : k <= j
         IN  2 ^ i + ToNat(a \ {i})

----------------------------------------------------------------------------
(* memory_map.rs: Permission, Region, MemoryRegions *)

\* bitflags Permission: u8, as the set of its set bit positions
Permission_NONE == {}
Permission_R == {0}
Permission_W == {1}
Permission_X == {2}
Permission_RW == Permission_R \cup Permission_W
Permission_RX == Permission_R \cup Permission_X
Permission_RWX == Permission_R \cup Permission_W \cup Permission_X

\* struct Region, as built by MemoryRegions::add
Region(start, end, desc, perms) ==
    [address |-> start, maps_to |-> "None", end |-> end, desc |-> desc, perms |-> perms]

\* Region::overlaps
overlaps(self, other) ==
    self.address < other.end /\ self.end > other.address

RECURSIVE sort_by_key(_)
\* Vec::sort_by_key(|r| r.address): a stable sort, here by insertion of the
\* last element after every element whose key is not greater
sort_by_key(rs) ==
    IF Len(rs) <= 1 THEN rs
    ELSE LET init == sort_by_key(SubSeq(rs, 1, Len(rs) - 1))
             x    == rs[Len(rs)]
             k    == Cardinality({i \in 1..Len(init) : init[i].address <= x.address})
         IN  SubSeq(init, 1, k) \o <<x>> \o SubSeq(init, k + 1, Len(init))

\* the same call without the sort: the new region stays where push put it
MemoryRegions_add_nosort(rs, start, end, desc, perms) ==
    IF start > end THEN [regions |-> rs, ret |-> "panic"]
    ELSE IF start = end THEN [regions |-> rs, ret |-> "false"]
    ELSE LET region == Region(start, end, desc, perms)
         IN  IF \E i \in 1..Len(rs) : overlaps(rs[i], region)
             THEN [regions |-> rs, ret |-> "false"]
             ELSE [regions |-> Append(rs, region), ret |-> "true"]

\* the same call pushing the region before the overlap scan
MemoryRegions_add_pushfirst(rs, start, end, desc, perms) ==
    IF start > end THEN [regions |-> rs, ret |-> "panic"]
    ELSE IF start = end THEN [regions |-> rs, ret |-> "false"]
    ELSE LET region == Region(start, end, desc, perms)
         IN  IF \E i \in 1..Len(rs) : overlaps(rs[i], region)
             THEN [regions |-> sort_by_key(Append(rs, region)), ret |-> "false"]
             ELSE [regions |-> sort_by_key(Append(rs, region)), ret |-> "true"]

\* the same call with the overlap test taken on closed intervals
MemoryRegions_add_closed(rs, start, end, desc, perms) ==
    IF start > end THEN [regions |-> rs, ret |-> "panic"]
    ELSE IF start = end THEN [regions |-> rs, ret |-> "false"]
    ELSE LET region == Region(start, end, desc, perms)
         IN  IF \E i \in 1..Len(rs) :
                    rs[i].address <= region.end /\ rs[i].end >= region.address
             THEN [regions |-> rs, ret |-> "false"]
             ELSE [regions |-> sort_by_key(Append(rs, region)), ret |-> "true"]

\* the same call without the assert on start <= end
MemoryRegions_add_noassert(rs, start, end, desc, perms) ==
    IF start = end THEN [regions |-> rs, ret |-> "false"]
    ELSE LET region == Region(start, end, desc, perms)
         IN  IF \E i \in 1..Len(rs) : overlaps(rs[i], region)
             THEN [regions |-> rs, ret |-> "false"]
             ELSE [regions |-> sort_by_key(Append(rs, region)), ret |-> "true"]

\* MemoryRegions::add(range, desc, perms) on the list rs: the list afterwards
\* and the outcome ("true", "false", or "panic" for the failed assert)
MemoryRegions_add(rs, start, end, desc, perms) ==
    IF start > end THEN [regions |-> rs, ret |-> "panic"]
    ELSE IF start = end THEN [regions |-> rs, ret |-> "false"]
    ELSE LET region == Region(start, end, desc, perms)
         IN  IF \E i \in 1..Len(rs) : overlaps(rs[i], region)
             THEN [regions |-> rs, ret |-> "false"]
             ELSE [regions |-> sort_by_key(Append(rs, region)), ret |-> "true"]

----------------------------------------------------------------------------
(* sv48.rs: page sizes, PageLevel, BigPage *)

\* 0x1000
PAGE_SIZE == Bit(12)
\* 0x200000
MEGA_PAGE_SIZE == Bit(21)
\* 0x40000000
GIGA_PAGE_SIZE == Bit(30)
\* 0x2000000000000
TERA_PAGE_SIZE == Bit(49)

\* in place of a BigPage: the call panicked / the iterator returned None
Panicked == [kind |-> "panic", pos |-> {}]
None == [kind |-> "None", pos |-> {}]

\* enum PageLevel
PageLevel == {"Level0", "Level1", "Level2", "Level3"}

\* BigPage::new(level, address)
BigPage_new(level, address) ==
    CASE level = "Level0" -> [kind |-> "Page", pos |-> address]
      [] level = "Level1" -> [kind |-> "MegaPage", pos |-> address]
      [] level = "Level2" -> [kind |-> "GigaPage", pos |-> address]
      [] level = "Level3" -> [kind |-> "TeraPage", pos |-> address]

\* BigPage::level
BigPage_level(self) ==
    CASE self.kind = "Page" -> "Level0"
      [] self.kind = "MegaPage" -> "Level1"
      [] self.kind = "GigaPage" -> "Level2"
      [] self.kind = "TeraPage" -> "Level3"

\* BigPage::size
BigPage_size(self) ==
    CASE self.kind = "Page" -> PAGE_SIZE
      [] self.kind = "MegaPage" -> MEGA_PAGE_SIZE
      [] self.kind = "GigaPage" -> GIGA_PAGE_SIZE
      [] self.kind = "TeraPage" -> TERA_PAGE_SIZE

\* BigPage::position
BigPage_position(self) == self.pos

\* const PAGE_LEVELS: [(PageLevel, u64); 4]
PAGE_LEVELS ==
    << <<BigPage_level([kind |-> "Page", pos |-> {}]), BigPage_size([kind |-> "Page", pos |-> {}])>>,
       <<BigPage_level([kind |-> "MegaPage", pos |-> {}]), BigPage_size([kind |-> "MegaPage", pos |-> {}])>>,
       <<BigPage_level([kind |-> "GigaPage", pos |-> {}]), BigPage_size([kind |-> "GigaPage", pos |-> {}])>>,
       <<BigPage_level([kind |-> "TeraPage", pos |-> {}]), BigPage_size([kind |-> "TeraPage", pos |-> {}])>> >>

\* the test of one loop iteration of page_for:
\* at_most >= *size && (position & (size - 1) == 0)
page_for_matches(size, position, at_most) ==
    Le(size, at_most) /\ BitAnd(position, WrappingSub(size, Bit(0))) = {}

RECURSIVE page_for_smallest(_, _, _)
\* the loop of page_for taken without .rev(): entries i..4 in ascending order
page_for_smallest(i, position, at_most) ==
    IF i > Len(PAGE_LEVELS) THEN Panicked
    ELSE IF page_for_matches(PAGE_LEVELS[i][2], position, at_most)
         THEN BigPage_new(PAGE_LEVELS[i][1], position)
         ELSE page_for_smallest(i + 1, position, at_most)

\* BigPage::page_for with the list walked smallest size first
page_for_norev(position, at_most) == page_for_smallest(1, position, at_most)

RECURSIVE page_for_above(_, _, _)
\* the loop of page_for with the size test at_most > *size
page_for_above(i, position, at_most) ==
    IF i = 0 THEN Panicked
    ELSE IF Lt(PAGE_LEVELS[i][2], at_most)
            /\ BitAnd(position, WrappingSub(PAGE_LEVELS[i][2], Bit(0))) = {}
         THEN BigPage_new(PAGE_LEVELS[i][1], position)
         ELSE page_for_above(i - 1, position, at_most)

\* BigPage::page_for accepting only sizes strictly below at_most
page_for_strict(position, at_most) == page_for_above(Len(PAGE_LEVELS), position, at_most)

RECURSIVE page_for_loop(_, _, _)
\* the loop of page_for over PAGE_LEVELS.iter().rev(), at entry i and below
page_for_loop(i, position, at_most) ==
    IF i = 0 THEN Panicked
    ELSE IF page_for_matches(PAGE_LEVELS[i][2], position, at_most)
         THEN BigPage_new(PAGE_LEVELS[i][1], position)
         ELSE page_for_loop(i - 1, position, at_most)

\* BigPage::page_for(position, at_most): the BigPage returned, or Panicked
page_for(position, at_most) == page_for_loop(Len(PAGE_LEVELS), position, at_most)

----------------------------------------------------------------------------
(* sv48.rs: VirtualAddress, Permissions, EntryFlags, Entry *)

\* const OFFSET_MASK
OFFSET_MASK == BITS(12)

\* VirtualAddress::VPN_0_MASK .. VPN_3_MASK
VPN_0_MASK == Shl(BITS(9), 12)
VPN_1_MASK == Shl(BITS(9), 21)
VPN_2_MASK == Shl(BITS(9), 30)
VPN_3_MASK == Shl(BITS(9), 39)

\* VirtualAddress::vpn_0 .. vpn_3
vpn_0(self) == Shr(BitAnd(self, VPN_0_MASK), 12)
vpn_1(self) == Shr(BitAnd(self, VPN_1_MASK), 21)
vpn_2(self) == Shr(BitAnd(self, VPN_2_MASK), 30)
vpn_3(self) == Shr(BitAnd(self, VPN_3_MASK), 39)

\* TableLevel::level_vpn(v) as usize, for the level types Level0 .. Level3
level_vpn(level, v) ==
    CASE level = "Level0" -> ToNat(vpn_0(v))
      [] level = "Level1" -> ToNat(vpn_1(v))
      [] level = "Level2" -> ToNat(vpn_2(v))
      [] level = "Level3" -> ToNat(vpn_3(v))

\* VirtualAddress::VPN_MASK
VPN_MASK == BitOr(VPN_0_MASK, BitOr(VPN_1_MASK, BitOr(VPN_2_MASK, VPN_3_MASK)))

\* an Option<VirtualAddress>
Some(address) == [some |-> TRUE, val |-> address]
NoAddress == [some |-> FALSE, val |-> {}]

\* VirtualAddress::new with the page-offset bits left out of the mask
VirtualAddress_new_nooffset(address) ==
    IF BitAnd(address, BitNot(VPN_MASK)) # {} THEN NoAddress ELSE Some(address)

\* VirtualAddress::new
VirtualAddress_new(address) ==
    IF BitAnd(address, BitNot(BitOr(VPN_MASK, OFFSET_MASK))) # {} THEN NoAddress
    ELSE Some(address)

\* VirtualAddress::offset_in_vpn
offset_in_vpn(self) == BitAnd(self, OFFSET_MASK)

\* VirtualAddress::vpn_for_level
vpn_for_level(self, level) ==
    CASE level = "Level0" -> vpn_0(self)
      [] level = "Level1" -> vpn_1(self)
      [] level = "Level2" -> vpn_2(self)
      [] level = "Level3" -> vpn_3(self)

\* Permissions::try_new: the Permissions built, or NoPermissions for None
NoPermissions == [none |-> TRUE]
Permissions_try_new(read, write, execute) ==
    IF write /\ ~read THEN NoPermissions
    ELSE [read |-> read, write |-> write, execute |-> execute]

\* HierarchicalLevel::Next
HierarchicalLevel_Next(level) ==
    CASE level = "Level3" -> "Level2"
      [] level = "Level2" -> "Level1"
      [] level = "Level1" -> "Level0"

\* Permission::readable / writable / executable
Permission_readable(perm) == BitAnd(perm, Permission_R) # {}
Permission_writable(perm) == BitAnd(perm, Permission_W) # {}
Permission_executable(perm) == BitAnd(perm, Permission_X) # {}

\* bitflags EntryFlags: u64
EntryFlags_V == Bit(0)
EntryFlags_R == Bit(1)
EntryFlags_W == Bit(2)
EntryFlags_X == Bit(3)
EntryFlags_U == Bit(4)
EntryFlags_G == Bit(5)
EntryFlags_A == Bit(6)
EntryFlags_D == Bit(7)
EntryFlags_RSW == Shl(BITS(2), 8)
EntryFlags_PPN_0 == Shl(BITS(9), 10)
EntryFlags_PPN_1 == Shl(BITS(9), 19)
EntryFlags_PPN_2 == Shl(BITS(26), 28)
EntryFlags_PBMT == Shl(BITS(2), 61)
EntryFlags_N == Bit(63)
EntryFlags_FLAGS ==
    BitOr(EntryFlags_V, BitOr(EntryFlags_R, BitOr(EntryFlags_W, BitOr(EntryFlags_X,
    BitOr(EntryFlags_U, BitOr(EntryFlags_G, BitOr(EntryFlags_A, BitOr(EntryFlags_A,
    BitOr(EntryFlags_D, BitOr(EntryFlags_PBMT, EntryFlags_N))))))))))
EntryFlags_PPN == BitOr(EntryFlags_PPN_0, BitOr(EntryFlags_PPN_1, EntryFlags_PPN_2))

\* EntryFlags::empty()
EntryFlags_empty == {}

\* bitflags' set(flag, value): insert the flag or remove it
EntryFlags_set(self, flag, value) ==
    IF value THEN BitOr(self, flag) ELSE BitAnd(self, BitNot(flag))

\* EntryFlags::builder() and the setters of EntryFlagsBuilder, on its `entry`
EntryFlags_builder == EntryFlags_empty
EntryFlagsBuilder_valid(self, preset) == EntryFlags_set(self, EntryFlags_V, preset)
EntryFlagsBuilder_readable(self, preset) == EntryFlags_set(self, EntryFlags_R, preset)
EntryFlagsBuilder_writable(self, preset) == EntryFlags_set(self, EntryFlags_W, preset)
EntryFlagsBuilder_executable(self, preset) == EntryFlags_set(self, EntryFlags_X, preset)

\* EntryFlagsBuilder::with_permissions
EntryFlagsBuilder_with_permissions(self, perm) ==
    EntryFlagsBuilder_executable(
        EntryFlagsBuilder_writable(
            EntryFlagsBuilder_readable(self, Permission_readable(perm)),
            Permission_writable(perm)),
        Permission_executable(perm))

\* EntryFlagsBuilder::build
EntryFlagsBuilder_build(self) == self

\* EntryFlags::valid
EntryFlags_valid(self) == BitAnd(self, EntryFlags_V) # {}

\* EntryFlags::permissions
EntryFlags_permissions(self) ==
    [read    |-> BitAnd(self, EntryFlags_R) = {},
     write   |-> BitAnd(self, EntryFlags_W) = {},
     execute |-> BitAnd(self, EntryFlags_X) = {}]

\* Permissions::is_none
Permissions_is_none(self) == ~(self.read \/ self.write \/ self.execute)

\* EntryFlags::is_leaf
EntryFlags_is_leaf(self) == Permissions_is_none(EntryFlags_permissions(self))

\* Entry::empty
Entry_empty == {}

\* Entry::new
Entry_new(address, flags) == BitOr(address, flags)

\* Entry::address
Entry_address(self) == BitAnd(self, EntryFlags_PPN)

\* Entry::flags
Entry_flags(self) == BitAnd(self, EntryFlags_FLAGS)

\* PhysicalAddress::ppn_0 .. ppn_2, with PhysicalAddressMask::PPN_0 =
\* BITS_9 << 12, PPN_1 = BITS_9 << 21 and PPN_2 = BITS_9 << 30
PhysicalAddress_ppn_0(self) == Shr(BitAnd(self, Shl(BITS(9), 12)), 12)
PhysicalAddress_ppn_1(self) == Shr(BitAnd(self, Shl(BITS(9), 21)), 21)
PhysicalAddress_ppn_2(self) == Shr(BitAnd(self, Shl(BITS(9), 30)), 30)

\* EntryFlags::from_bits(bits).unwrap(): the flags, or a panic when bits
\* holds a bit that none of the flags of the bitflags! block defines
EntryFlags_from_bits(bits) ==
    LET all == BitOr(EntryFlags_FLAGS, BitOr(EntryFlags_PPN, EntryFlags_RSW))
    IN  IF BitAnd(bits, BitNot(all)) # {} THEN [ok |-> FALSE, val |-> {}]
        ELSE [ok |-> TRUE, val |-> bits]

\* EntryFlagsBuilder::for_offset on the builder's `entry`: the entry
\* afterwards, unless an unwrap panics
EntryFlagsBuilder_for_offset(self, offset) ==
    LET removed == BitAnd(BitAnd(BitAnd(self, BitNot(EntryFlags_PPN_0)),
                                 BitNot(EntryFlags_PPN_1)), BitNot(EntryFlags_PPN_2))
        f0 == EntryFlags_from_bits(Shl(PhysicalAddress_ppn_0(offset), 10))
        f1 == EntryFlags_from_bits(Shl(PhysicalAddress_ppn_1(offset), 19))
        f2 == EntryFlags_from_bits(Shl(PhysicalAddress_ppn_2(offset), 28))
    IN  IF ~(f0.ok /\ f1.ok /\ f2.ok) THEN [ok |-> FALSE, val |-> {}]
        ELSE [ok |-> TRUE,
              val |-> BitAnd(BitAnd(BitAnd(removed, f0.val), f1.val), f2.val)]   \* &=

\* PageLevel::up, with "None" for None
PageLevel_up(self) ==
    CASE self = "Level0" -> "Level1"
      [] self = "Level1" -> "Level2"
      [] self = "Level2" -> "Level3"
      [] self = "Level3" -> "None"

\* PageLevel::down, with "None" for None
PageLevel_down(self) ==
    CASE self = "Level0" -> "None"
      [] self = "Level1" -> "Level0"
      [] self = "Level2" -> "Level1"
      [] self = "Level3" -> "Level2"

\* PageLevel::top
PageLevel_top(self) == self = "Level2"

\* PageLevel::bottom
PageLevel_bottom(self) == self = "Level0"

----------------------------------------------------------------------------
(* pagetable.rs: PhysicalAddr *)

\* PhysicalAddr::page_offset: self.0 & ((1 << 12) - 1)
PhysicalAddr_page_offset(self) ==
    BitAnd(self, WrappingSub(Shl(Bit(0), 12), Bit(0)))

\* PhysicalAddr::ppn0: self.0 & (((1 << 9) - 1) << 12) >> 12, where >> binds
\* tighter than &
PhysicalAddr_ppn0(self) ==
    BitAnd(self, Shr(Shl(WrappingSub(Shl(Bit(0), 9), Bit(0)), 12), 12))

\* PhysicalAddr::ppn1: self.0 & (((1 << 9) - 1) << 21) >> 21
PhysicalAddr_ppn1(self) ==
    BitAnd(self, Shr(Shl(WrappingSub(Shl(Bit(0), 9), Bit(0)), 21), 21))

\* PhysicalAddr::ppn2: self.0 & (((1 << 26) - 1) << 30) >> 30
PhysicalAddr_ppn2(self) ==
    BitAnd(self, Shr(Shl(WrappingSub(Shl(Bit(0), 26), Bit(0)), 30), 30))

----------------------------------------------------------------------------
(* regions.rs: MemoryRange *)

\* struct MemoryRange
MemoryRange(start, end) == [start |-> start, end |-> end]

\* <MemoryRange as Ord>::cmp with the first test written self.end >= other.start
MemoryRange_cmp_touching(self, other) ==
    IF self.start < other.start
    THEN IF self.end >= other.start THEN "Equal" ELSE "Less"
    ELSE IF self.start = other.start THEN "Equal"
    ELSE IF self.start < other.end THEN "Equal"
    ELSE "Greater"

\* <MemoryRange as Ord>::cmp
MemoryRange_cmp(self, other) ==
    IF self.start < other.start
    THEN IF self.end > other.start THEN "Equal" ELSE "Less"
    ELSE IF self.start = other.start THEN "Equal"
    ELSE IF self.start < other.end THEN "Equal"
    ELSE "Greater"

----------------------------------------------------------------------------
(* sv48.rs: PageTable, the mapper, PageTableRoot *)
(*                                                                         *)
(* Memory is a record m:                                                   *)
(*   m.mem       the page tables allocated so far, by address              *)
(*   m.nalloc    how many tables the allocator has handed out              *)
(*   m.heap_base the address of the first of them                          *)
(*   m.wild      memory that is no page table but was dereferenced as one, *)
(*               by address, with the contents found and written there     *)
(*   m.stray     the addresses of m.wild that were written                 *)
(*   m.fault     a dereference outside the tables trapped                  *)
(***************************************************************************)

\* const PAGE_ENTRIES
PAGE_ENTRIES == 512

\* n as u64
FromNat(n) == {i \in 0..30 : (n \div (2 ^ i)) % 2 = 1}

\* the entries of a fresh table: [Entry::DEFAULT; PAGE_ENTRIES]
ZeroTable == [i \in 0..(PAGE_ENTRIES - 1) |-> Entry_empty]

\* the address Box::new returns for the next table: the allocator hands out
\* consecutive 4096-aligned blocks
NextBox(m) == WrappingAdd(m.heap_base, Shl(FromNat(m.nalloc), 12))

\* PageTable::allocate(): memory after the allocation (the table is at NextBox(m))
PageTable_allocate(m) ==
    [m EXCEPT !.mem = @ @@ (NextBox(m) :> ZeroTable), !.nalloc = @ + 1]

\* *(address as *mut PageTable<_>): memory after the dereference. An address
\* that is no allocated table is undefined behaviour: the access traps
\* (found.fault), or it finds whatever 4096 bytes are there (found.entries)
Deref(m, address, found) ==
    IF address \in DOMAIN m.mem \/ address \in DOMAIN m.wild THEN m
    ELSE IF found.fault THEN [m EXCEPT !.fault = TRUE]
    ELSE [m EXCEPT !.wild = @ @@ (address :> found.entries)]

\* table.entries[index], for the table at address table
ReadEntry(m, table, index) ==
    IF table \in DOMAIN m.mem THEN m.mem[table][index] ELSE m.wild[table][index]

\* table.entries[index] = entry
WriteEntry(m, table, index, entry) ==
    IF table \in DOMAIN m.mem
    THEN [m EXCEPT !.mem[table][index] = entry]
    ELSE [m EXCEPT !.wild[table][index] = entry, !.stray = @ \cup {table}]

\* <Level0 as MapAddr>::map_addr
map_addr_Level0(m, table, addr, to, perm) ==
    LET entry_index == level_vpn("Level0", to)
        flags == EntryFlagsBuilder_build(
                     EntryFlagsBuilder_with_permissions(
                         EntryFlagsBuilder_valid(EntryFlags_builder, TRUE), perm))
        entry == Entry_new(addr, flags)
    IN  WriteEntry(m, table, entry_index, entry)

\* the flags insert_child_table builds: valid, not readable, writable or executable
ChildTableFlags ==
    EntryFlagsBuilder_build(
        EntryFlagsBuilder_executable(
            EntryFlagsBuilder_writable(
                EntryFlagsBuilder_readable(
                    EntryFlagsBuilder_valid(EntryFlags_builder, TRUE), FALSE), FALSE), FALSE))

\* PageTableMutEntry::insert_child_table(page) for the entry index of table
\* and the table at address page
insert_child_table(m, table, index, page) ==
    WriteEntry(m, table, index, Entry_new(page, ChildTableFlags))

RECURSIVE map_addr_always_allocates(_, _, _, _, _, _, _)
\* the same walk with a new child table at every level, whatever the slot holds
map_addr_always_allocates(m, level, table, addr, to, perm, found) ==
    IF level = "Level0" THEN map_addr_Level0(m, table, addr, to, perm)
    ELSE LET index == level_vpn(level, to)
             child == NextBox(m)
             m1 == insert_child_table(PageTable_allocate(m), table, index, child)
         IN  map_addr_always_allocates(m1, HierarchicalLevel_Next(level), child,
                                       addr, to, perm, found)

RECURSIVE map_addr(_, _, _, _, _, _, _)
\* <H as MapAddr>::map_addr for H = level in Level3, Level2, Level1, and
\* <Level0 as MapAddr>::map_addr for Level0, on the table at address table
map_addr(m, level, table, addr, to, perm, found) ==
    IF level = "Level0" THEN map_addr_Level0(m, table, addr, to, perm)
    ELSE LET index == level_vpn(level, to)             \* entry_for_mut(to)
             entry == ReadEntry(m, table, index)
         IN  IF EntryFlags_valid(Entry_flags(entry))   \* entry.child() is Some
             THEN LET child == Entry_address(entry)
                      m1 == Deref(m, child, found)
                  IN  IF m1.fault THEN m1
                      ELSE map_addr(m1, HierarchicalLevel_Next(level), child, addr, to, perm, found)
             ELSE LET child == NextBox(m)
                      m1 == insert_child_table(PageTable_allocate(m), table, index, child)
                  IN  map_addr(m1, HierarchicalLevel_Next(level), child, addr, to, perm, found)

RECURSIVE map_addr_visited(_, _, _, _, _)
\* the tables the nested map_addr calls are made on, from the table at
\* address table of level down to where the recursion ends: one self per
\* call of <H as MapAddr>::map_addr and <Level0 as MapAddr>::map_addr
map_addr_visited(m, level, table, to, found) ==
    IF level = "Level0" THEN <<table>>
    ELSE LET index == level_vpn(level, to)
             entry == ReadEntry(m, table, index)
         IN  IF EntryFlags_valid(Entry_flags(entry))
             THEN LET child == Entry_address(entry)
                      m1 == Deref(m, child, found)
                  IN  IF m1.fault THEN <<table>>
                      ELSE <<table>> \o map_addr_visited(m1, HierarchicalLevel_Next(level),
                                                         child, to, found)
             ELSE LET child == NextBox(m)
                      m1 == insert_child_table(PageTable_allocate(m), table, index, child)
                  IN  <<table>> \o map_addr_visited(m1, HierarchicalLevel_Next(level),
                                                    child, to, found)

\* PageTableRoot::map_addr
PageTableRoot_map_addr(m, root, addr, to, perm, found) ==
    map_addr(m, "Level3", root, addr, to, perm, found)

\* PageTableRoot::dumb_map
PageTableRoot_dumb_map(m, root) ==
    LET flags == BitOr(EntryFlags_V, BitOr(EntryFlags_R, BitOr(EntryFlags_W, EntryFlags_X)))
        page == NextBox(m)
        m1 == PageTable_allocate(m)
        m2 == [m1 EXCEPT !.mem[page] =
                  [i \in 0..(PAGE_ENTRIES - 1) |->
                      Entry_new(Shl(FromNat(i), 30), flags)]]   \* i * GIGA_PAGE_SIZE
    IN  WriteEntry(m2, root, 0, Entry_new(page, EntryFlags_V))

\* place_dumb_map
place_dumb_map(m, root) ==
    LET flags == EntryFlagsBuilder_build(
                     EntryFlagsBuilder_executable(
                         EntryFlagsBuilder_writable(
                             EntryFlagsBuilder_readable(
                                 EntryFlagsBuilder_valid(EntryFlags_builder, TRUE), TRUE), TRUE), TRUE))
    IN  [m EXCEPT !.mem[root] =
            [i \in 0..(PAGE_ENTRIES - 1) |->
                IF i < 4 THEN Entry_new(Shl(FromNat(i), 30), flags)   \* i * 0x40000000
                ELSE Entry_empty]]

\* PhysicalAddress::ppn
PhysicalAddress_ppn(self) ==
    Shr(BitAnd(BitAnd(self, BITS(55)), BitNot(BITS(12))), 12)

\* const SV48: u64 = 9
SV48 == FromNat(9)

\* the value PageTableRoot::set_satp writes to satp, for the root table at
\* root_addr: ppn | (asid as u64) << 44 | SV48 << 60
sapt_value(root_addr, asid) ==
    BitOr(PhysicalAddress_ppn(root_addr), BitOr(Shl(asid, 44), Shl(SV48, 60)))

----------------------------------------------------------------------------
(* hwinfo.rs: page_end, PhysicalAddressRange::big_pages *)

\* an addition a + b as the build performs it: with overflow checks an
\* overflowing sum panics, without them it wraps
CheckedAdd(a, b, checks) ==
    IF AddOverflows(a, b) /\ checks THEN [ok |-> FALSE, val |-> {}]
    ELSE [ok |-> TRUE, val |-> WrappingAdd(a, b)]

\* page_end(addr): addr rounded up to a multiple of PAGE_SIZE, unless the sum panics
page_end(addr, checks) ==
    LET rem == BitAnd(addr, WrappingSub(PAGE_SIZE, Bit(0)))    \* addr % PAGE_SIZE
    IN  IF rem = {} THEN [ok |-> TRUE, val |-> addr]
        ELSE CheckedAdd(addr, WrappingSub(PAGE_SIZE, rem), checks)

\* the closure of big_pages with `current` always advanced by one 4KiB page
big_pages_next_step4k(current, end, checks) ==
    IF ~Lt(current, end) THEN [item |-> None, current |-> current]
    ELSE LET remaining == WrappingSub(end, current)
             page == page_for(current, remaining)
         IN  IF page = Panicked THEN [item |-> Panicked, current |-> current]
             ELSE LET sum == CheckedAdd(current, PAGE_SIZE, checks)
                  IN  IF ~sum.ok THEN [item |-> Panicked, current |-> current]
                      ELSE [item |-> page, current |-> sum.val]

\* one call of the closure of big_pages: the item returned (None, a BigPage,
\* or Panicked) and the closure's `current` afterwards
big_pages_next(current, end, checks) ==
    IF ~Lt(current, end) THEN [item |-> None, current |-> current]
    ELSE LET remaining == WrappingSub(end, current)
             page == page_for(current, remaining)
         IN  IF page = Panicked THEN [item |-> Panicked, current |-> current]
             ELSE LET sum == CheckedAdd(current, BigPage_size(page), checks)
                  IN  IF ~sum.ok THEN [item |-> Panicked, current |-> current]
                      ELSE [item |-> page, current |-> sum.val]

RECURSIVE big_pages_collect(_, _, _)
\* the items the iterator of big_pages yields from `current` on, until it
\* returns None (ok) or a call panics (not ok, after the items yielded so far)
big_pages_collect(current, end, checks) ==
    LET r == big_pages_next(current, end, checks)
    IN  IF r.item = None THEN [ok |-> TRUE, out |-> <<>>]
        ELSE IF r.item = Panicked THEN [ok |-> FALSE, out |-> <<>>]
        ELSE LET rest == big_pages_collect(r.current, end, checks)
             IN  [ok |-> rest.ok, out |-> <<r.item>> \o rest.out]

\* PhysicalAddressRange::big_pages, iterated to its end
big_pages(self, checks) ==
    LET e == page_end(self.end, checks)
    IN  IF ~e.ok THEN [ok |-> FALSE, out |-> <<>>]
        ELSE big_pages_collect(self.start, e.val, checks)

----------------------------------------------------------------------------
(* sv48.rs: PageTableRoot::map_all *)

\* MemoryRegions::iter_regions: the stored regions, in stored order
iter_regions(rs) == rs

\* Region::iter_pages: the address of each unit of the region's big_pages()
\* sequence, with the region's permission
iter_pages(region, checks) ==
    LET bp == big_pages([start |-> region.address, end |-> region.end], checks)
    IN  [ok |-> bp.ok,
         items |-> [j \in 1..Len(bp.out) |-> <<BigPage_position(bp.out[j]), region.perms>>]]

RECURSIVE map_all_pages(_, _, _, _, _)
\* the inner loop of map_all from item j on: self.map_addr(PhysicalAddress(addr.0), addr, perm)
map_all_pages(m, root, items, j, found) ==
    IF j > Len(items) \/ m.fault THEN m
    ELSE map_all_pages(
             PageTableRoot_map_addr(m, root, items[j][1], items[j][1], items[j][2], found),
             root, items, j + 1, found)

RECURSIVE map_all_regions(_, _, _, _, _, _)
\* the outer loop of map_all from region i on: memory afterwards, and whether
\* the loop ran to its end (ok) or the kernel panicked or trapped
map_all_regions(m, root, rs, i, found, checks) ==
    IF m.fault THEN [ok |-> FALSE, m |-> m]
    ELSE IF i > Len(rs) THEN [ok |-> TRUE, m |-> m]
    ELSE LET pages == iter_pages(rs[i], checks)
             m1 == map_all_pages(m, root, pages.items, 1, found)
         IN  IF ~pages.ok THEN [ok |-> FALSE, m |-> m1]
             ELSE map_all_regions(m1, root, rs, i + 1, found, checks)

\* PageTableRoot::map_all
PageTableRoot_map_all(m, root, memory_regions, found, checks) ==
    map_all_regions(m, root, iter_regions(memory_regions), 1, found, checks)

----------------------------------------------------------------------------
(* State *)

VARIABLES
    regions,    \* MemoryRegions.regions
    call,       \* the arguments of the last MemoryRegions::add call
    ret,        \* its outcome: "true", "false", "panic"; "none" before any call
    panicked,   \* the kernel has panicked; nothing runs afterwards
    overflow_checks, \* the build panics on integer overflow (debug) or wraps (release)
    bp_self,    \* the PhysicalAddressRange big_pages() was called on: start, end
    bp_current, \* the closure's `current`
    bp_end,     \* the closure's `end` = page_end(self.end)
    bp_out,     \* the BigPage values the iterator has yielded so far
    bp_pc,      \* "idle", "iter" (iterator live), "done" (it returned None)
    pf,         \* the last direct BigPage::page_for / BigPage::new call and its result
    pt_root,    \* PageTableRoot.root: the address of the root table
    memory,     \* the page tables and the memory touched through them
    pt_call,    \* the last mapping call on the root and its arguments
    pt_nops,    \* how many mapping calls were made on the root
    satp,       \* the satp register of the hart
    en          \* the last call on an Entry, EntryFlags or VirtualAddress and its result

regionVars == <<regions, call, ret>>

bigPageVars == <<overflow_checks, bp_self, bp_current, bp_end, bp_out, bp_pc, pf>>

pageTableVars == <<pt_root, memory, pt_call, pt_nops, satp>>

entryVars == <<en>>

vars == <<regions, call, ret, panicked, overflow_checks,
          bp_self, bp_current, bp_end, bp_out, bp_pc, pf,
          pt_root, memory, pt_call, pt_nops, satp, en>>

NoCall == [start |-> 0, end |-> 0, desc |-> "a", perms |-> Permission_NONE]

NoPf == [op |-> "none"]

\* no registry exists
IdleRegions ==
    /\ regions = <<>>
    /\ call = NoCall
    /\ ret = "none"

\* memory without any page table
NoMemory(heap_base) ==
    [mem |-> [a \in {} |-> ZeroTable], nalloc |-> 0, heap_base |-> heap_base,
     wild |-> [a \in {} |-> ZeroTable], stray |-> {}, fault |-> FALSE]

NoPtCall == [op |-> "none"]

\* no PageTableRoot exists
IdlePageTable ==
    /\ pt_root = {}
    /\ memory = NoMemory({})
    /\ pt_call = NoPtCall
    /\ pt_nops = 0
    /\ satp = {}

NoEn == [op |-> "none"]

\* no Entry, EntryFlags or VirtualAddress call was made
IdleEntry == en = NoEn

\* no big_pages iterator exists
IdleBigPages ==
    /\ bp_self = [start |-> {}, end |-> {}]
    /\ bp_current = {}
    /\ bp_end = {}
    /\ bp_out = <<>>
    /\ bp_pc = "idle"
    /\ pf = NoPf

----------------------------------------------------------------------------
(* The registry: MemoryRegions::new() followed by add calls *)

\* the description and permission arguments of add
LabelInputs == { <<"a", Permission_NONE>>, <<"b", Permission_RW>>, <<"b", Permission_R>> }

\* MemoryRegions::new()
InitRegions ==
    /\ regions = <<>>
    /\ call = NoCall
    /\ ret = "none"
    /\ panicked = FALSE
    /\ overflow_checks = TRUE
    /\ IdleBigPages
    /\ IdlePageTable
    /\ IdleEntry

\* one call regions.add(start..end, desc, perms)
Add(start, end, desc, perms) ==
    LET r == MemoryRegions_add(regions, start, end, desc, perms)
    IN  /\ ~panicked
        /\ Len(r.regions) <= MaxRegions
        /\ regions' = r.regions
        /\ call' = [start |-> start, end |-> end, desc |-> desc, perms |-> perms]
        /\ ret' = r.ret
        /\ panicked' = (r.ret = "panic")
        /\ UNCHANGED <<bigPageVars, pageTableVars, entryVars>>

NextRegions ==
    \E start \in 0..MaxAddr, end \in 0..MaxAddr, label \in LabelInputs :
        Add(start, end, label[1], label[2])

SpecRegions == InitRegions /\ [][NextRegions]_vars

----------------------------------------------------------------------------
(* The coalescer: one big_pages() iteration, or one direct page_for or       *)
(* BigPage::new call, per behaviour                                         *)

\* the words with exactly the bits lo..hi set
BitsFromTo(lo, hi) == lo..hi

\* the ranges big_pages() is called on: a few bytes or pages at each kind of
\* boundary, ranges made of units of two sizes, an inverted range and ranges
\* that end in the last page of the address space
SmallStarts ==
    { {}, Bit(12), Bit(11), BitsFromTo(12, 20), BitsFromTo(21, 29), BitsFromTo(30, 48) }
SmallLens ==
    { {}, Bit(11), Bit(12), BitOr(Bit(12), Bit(0)), Bit(13), BitOr(Bit(13), Bit(11)),
      BitOr(Bit(13), Bit(12)) }
RangeInputs ==
    { [start |-> s, end |-> WrappingAdd(s, l)] : s \in SmallStarts, l \in SmallLens }
    \cup
    { [start |-> {}, end |-> Bit(21)],
      [start |-> {}, end |-> BitOr(Bit(21), Bit(12))],
      [start |-> {}, end |-> BitOr(Bit(21), Bit(11))],
      [start |-> BitsFromTo(12, 20), end |-> BitOr(Bit(22), Bit(12))],
      [start |-> {}, end |-> Bit(30)],
      [start |-> BitsFromTo(21, 29), end |-> BitOr(Bit(31), Bit(21))],
      [start |-> {}, end |-> Bit(49)],
      [start |-> BitsFromTo(30, 48), end |-> BitOr(Bit(50), Bit(12))],
      [start |-> Bit(13), end |-> Bit(12)],
      [start |-> BitsFromTo(13, 63), end |-> BitsFromTo(12, 63)],
      [start |-> BitsFromTo(13, 63), end |-> BitsFromTo(0, 63)],
      [start |-> BitsFromTo(13, 63), end |-> BitOr(BitsFromTo(13, 63), Bit(0))] }

\* the arguments of direct page_for and BigPage::new calls
PositionInputs ==
    { {}, Bit(11), Bit(12), Bit(21), BitOr(Bit(21), Bit(12)), Bit(30), Bit(39), Bit(49),
      BitOr(Bit(49), Bit(30)) }
AtMostInputs ==
    { {}, BITS(12), Bit(12), BitOr(Bit(13), Bit(12)), Bit(21), BITS(30), Bit(30), Bit(39),
      Bit(49), BITS(64) }

InitBigPages ==
    /\ IdleRegions
    /\ panicked = FALSE
    /\ overflow_checks \in BOOLEAN
    /\ IdleBigPages
    /\ IdlePageTable
    /\ IdleEntry

\* range.big_pages(): the closure captures current = start, end = page_end(end)
BigPages(range) ==
    LET e == page_end(range.end, overflow_checks)
    IN  /\ ~panicked
        /\ bp_pc = "idle"
        /\ pf = NoPf
        /\ bp_self' = range
        /\ bp_out' = <<>>
        /\ IF ~e.ok
           THEN panicked' = TRUE /\ UNCHANGED <<bp_current, bp_end, bp_pc>>
           ELSE /\ bp_current' = range.start
                /\ bp_end' = e.val
                /\ bp_pc' = "iter"
                /\ UNCHANGED panicked
        /\ UNCHANGED <<regionVars, pageTableVars, entryVars, overflow_checks, pf>>

\* one next() on the iterator
BigPagesNext ==
    LET r == big_pages_next(bp_current, bp_end, overflow_checks)
    IN  /\ ~panicked
        /\ bp_pc = "iter"
        /\ bp_current' = r.current
        /\ IF r.item = Panicked
           THEN panicked' = TRUE /\ UNCHANGED <<bp_out, bp_pc>>
           ELSE IF r.item = None
           THEN bp_pc' = "done" /\ UNCHANGED <<bp_out, panicked>>
           ELSE bp_out' = Append(bp_out, r.item) /\ UNCHANGED <<bp_pc, panicked>>
        /\ UNCHANGED <<regionVars, pageTableVars, entryVars, overflow_checks, bp_self, bp_end, pf>>

\* a direct call BigPage::page_for(position, at_most)
PageFor(position, at_most) ==
    LET r == page_for(position, at_most)
    IN  /\ ~panicked
        /\ bp_pc = "idle"
        /\ pf = NoPf
        /\ pf' = [op |-> "page_for", position |-> position, at_most |-> at_most, result |-> r]
        /\ panicked' = (r = Panicked)
        /\ UNCHANGED <<regionVars, pageTableVars, entryVars, overflow_checks, bp_self, bp_current, bp_end, bp_out, bp_pc>>

\* a direct call BigPage::new(level, address)
New(level, address) ==
    /\ ~panicked
    /\ bp_pc = "idle"
    /\ pf = NoPf
    /\ pf' = [op |-> "new", level |-> level, address |-> address,
              result |-> BigPage_new(level, address)]
    /\ UNCHANGED <<regionVars, pageTableVars, entryVars, panicked, overflow_checks, bp_self, bp_current, bp_end, bp_out, bp_pc>>

NextBigPages ==
    \/ \E range \in RangeInputs : BigPages(range)
    \/ BigPagesNext
    \/ \E position \in PositionInputs, at_most \in AtMostInputs : PageFor(position, at_most)
    \/ \E level \in PageLevel, address \in PositionInputs : New(level, address)

SpecBigPages == InitBigPages /\ [][NextBigPages]_vars

----------------------------------------------------------------------------
(* The page table: PageTableRoot::new() followed by mapping calls *)

\* where the allocator places the first table
HeapBases == { BitOr(Bit(31), Bit(22)) }                              \* 0x80400000

\* the `to` arguments: two addresses of one page, a page of another Level0
\* table, and a page under another root entry
VirtInputs ==
    { Bit(12),                                                        \* 0x1000
      BitOr(Bit(12), BitOr(Bit(9), Bit(4))),                          \* 0x1210
      BitOr(Bit(21), Bit(12)),                                        \* 0x201000
      BitOr(Bit(39), Bit(12)) }                                       \* 0x8000001000

\* the `addr` arguments: page-aligned, low, in RAM, and in the top quarter of
\* the 56-bit physical address space
PhysInputs ==
    { Bit(12),                                                        \* 0x1000
      BitOr(Bit(31), Bit(12)),                                        \* 0x80001000
      BitOr(Bit(54), Bit(12)) }                                       \* 0x40000000001000

PermInputs == {Permission_NONE, Permission_R, Permission_RW}

\* what a dereference of memory that is no page table can find: a trap, zeroes,
\* or words that read as valid pointers to 0x5000
WildInputs ==
    { [fault |-> TRUE, entries |-> ZeroTable],
      [fault |-> FALSE, entries |-> ZeroTable],
      [fault |-> FALSE, entries |->
          [i \in 0..(PAGE_ENTRIES - 1) |-> BitOr(BitOr(Bit(14), Bit(12)), EntryFlags_V)]] }

\* the registries map_all is called with, as MemoryRegions::add leaves them:
\* the first two pages of the NULL range without permission, two 4KiB pages,
\* one aligned 2MiB range, and a 4KiB page before a 2MiB range
MapAllInputs ==
    { << Region({}, Bit(13), "NULL", Permission_NONE) >>,
      << Region(Bit(12), BitOr(Bit(13), Bit(12)), "a", Permission_R) >>,
      << Region(Bit(21), Bit(22), "b", Permission_RW) >>,
      << Region(Bit(12), Bit(13), "a", Permission_R),
         Region(Bit(21), Bit(22), "b", Permission_RW) >> }

\* PageTableRoot::new()
InitPageTable ==
    /\ IdleRegions
    /\ panicked = FALSE
    /\ overflow_checks = TRUE
    /\ IdleBigPages
    /\ \E heap_base \in HeapBases :
          /\ pt_root = NextBox(NoMemory(heap_base))
          /\ memory = PageTable_allocate(NoMemory(heap_base))
    /\ pt_call = NoPtCall
    /\ pt_nops = 0
    /\ satp = {}
    /\ IdleEntry

\* root.map_addr(addr, to, perm)
MapAddr(addr, to, perm, found) ==
    LET m == PageTableRoot_map_addr(memory, pt_root, addr, to, perm, found)
    IN  /\ ~panicked
        /\ pt_nops < MaxOps
        /\ memory' = m
        /\ panicked' = m.fault
        /\ pt_call' = [op |-> "map_addr", addr |-> addr, to |-> to, perm |-> perm,
                       visited |-> map_addr_visited(memory, "Level3", pt_root, to, found)]
        /\ pt_nops' = pt_nops + 1
        /\ UNCHANGED <<regionVars, bigPageVars, entryVars, satp, pt_root>>

\* root.map_all(memory_regions)
MapAll(memory_regions, found) ==
    LET r == PageTableRoot_map_all(memory, pt_root, memory_regions, found, overflow_checks)
    IN  /\ ~panicked
        /\ pt_nops < MaxOps
        /\ memory' = r.m
        /\ panicked' = ~r.ok
        /\ pt_call' = [op |-> "map_all", regions |-> memory_regions]
        /\ pt_nops' = pt_nops + 1
        /\ UNCHANGED <<regionVars, bigPageVars, entryVars, satp, pt_root>>

\* root.dumb_map()
DumbMap ==
    /\ ~panicked
    /\ pt_nops < MaxOps
    /\ memory' = PageTableRoot_dumb_map(memory, pt_root)
    /\ pt_call' = [op |-> "dumb_map"]
    /\ pt_nops' = pt_nops + 1
    /\ UNCHANGED <<regionVars, bigPageVars, entryVars, satp, pt_root, panicked>>

\* place_dumb_map(&mut root)
PlaceDumbMap ==
    /\ ~panicked
    /\ pt_nops < MaxOps
    /\ memory' = place_dumb_map(memory, pt_root)
    /\ pt_call' = [op |-> "place_dumb_map"]
    /\ pt_nops' = pt_nops + 1
    /\ UNCHANGED <<regionVars, bigPageVars, entryVars, satp, pt_root, panicked>>

NextPageTable ==
    \/ \E addr \in PhysInputs, to \in VirtInputs, perm \in PermInputs, found \in WildInputs :
          MapAddr(addr, to, perm, found)
    \/ \E memory_regions \in MapAllInputs, found \in WildInputs : MapAll(memory_regions, found)
    \/ DumbMap
    \/ PlaceDumbMap

SpecPageTable == InitPageTable /\ [][NextPageTable]_vars

----------------------------------------------------------------------------
(* The page table under map_addr alone: PageTableRoot::new() followed by   *)
(* map_addr calls                                                          *)

\* the `to` arguments: two pages of one Level0 table, and a page under
\* another Level1 entry, another Level2 entry and another root entry
PrefixVirtInputs ==
    { Bit(12),                                                        \* 0x1000
      Bit(13),                                                        \* 0x2000
      BitOr(Bit(21), Bit(12)),                                        \* 0x201000
      BitOr(Bit(30), Bit(12)),                                        \* 0x40001000
      BitOr(Bit(39), Bit(12)) }                                       \* 0x8000001000

\* map_addr with addr 0x1000 or 0x80001000 and perm R or RW. No memory
\* outside the tables is dereferenced when every table entry was written by
\* map_addr: any dereference of it would trap
NextMapAddr ==
    \E addr \in {Bit(12), BitOr(Bit(31), Bit(12))}, to \in PrefixVirtInputs,
       perm \in {Permission_R, Permission_RW} :
        MapAddr(addr, to, perm, [fault |-> TRUE, entries |-> ZeroTable])

SpecMapAddr == InitPageTable /\ [][NextMapAddr]_vars

----------------------------------------------------------------------------
(* Activation: PageTableRoot::new(), mapping calls and set_satp *)

\* where the allocator places the root table: in RAM, and at the top of the
\* 56-bit physical address space
SatpHeapBases ==
    { BitOr(Bit(31), Bit(22)), Bit(12), BitsFromTo(12, 43), Bit(54),
      BitOr(Bit(55), Bit(31)), BitsFromTo(12, 55) }

\* the address-space ids
AsidInputs ==
    { {}, Bit(0), Bit(1), Bit(3), Bit(4), Bit(7), Bit(8), Bit(11), Bit(12), Bit(15),
      BITS(4), BITS(8), BITS(12), BITS(15), BITS(16), BitsFromTo(12, 15),
      BitOr(Bit(15), Bit(0)), BitOr(Bit(9), Bit(5)), BitsFromTo(4, 11), BitsFromTo(1, 14) }

\* PageTableRoot::new(), the hart in bare mode (satp = 0)
InitSatp ==
    /\ IdleRegions
    /\ panicked = FALSE
    /\ overflow_checks = TRUE
    /\ IdleBigPages
    /\ \E heap_base \in SatpHeapBases :
          /\ pt_root = NextBox(NoMemory(heap_base))
          /\ memory = PageTable_allocate(NoMemory(heap_base))
    /\ pt_call = NoPtCall
    /\ pt_nops = 0
    /\ satp = {}
    /\ IdleEntry

\* root.set_satp(asid): csrrw x0, satp, sapt_value
SetSatp(asid) ==
    /\ ~panicked
    /\ satp' = sapt_value(pt_root, asid)
    /\ pt_call' = [op |-> "set_satp", asid |-> asid]
    /\ UNCHANGED <<regionVars, bigPageVars, entryVars, pt_root, memory, pt_nops, panicked>>

NextSatp ==
    \/ \E asid \in AsidInputs : SetSatp(asid)
    \/ DumbMap
    \/ PlaceDumbMap

SpecSatp == InitSatp /\ [][NextSatp]_vars

----------------------------------------------------------------------------
(* Entry, EntryFlags, Permissions and VirtualAddress: one call per behaviour *)

\* the PhysicalAddress arguments of Entry::new: page-aligned addresses low,
\* in RAM and at the top of the 56-bit space, and addresses with offset bits
EntryAddressInputs ==
    { {}, Bit(12), BitOr(Bit(31), Bit(12)), BitOr(Bit(38), Bit(21)),
      BitsFromTo(12, 55), BitOr(Bit(54), Bit(12)),
      BitOr(Bit(12), Bit(0)), BitOr(Bit(12), BitOr(Bit(11), Bit(10))),
      BitOr(Bit(31), BitOr(Bit(9), Bit(1))) }

\* the EntryFlags arguments of Entry::new
EntryFlagsInputs ==
    { EntryFlags_empty, EntryFlags_V, BitOr(EntryFlags_V, EntryFlags_R),
      BitOr(EntryFlags_V, BitOr(EntryFlags_R, EntryFlags_W)),
      BitOr(EntryFlags_V, BitOr(EntryFlags_R, BitOr(EntryFlags_W, EntryFlags_X))),
      BitOr(EntryFlags_V, BitOr(EntryFlags_A, EntryFlags_D)),
      BitOr(EntryFlags_V, BitOr(EntryFlags_R, EntryFlags_N)),
      BitOr(EntryFlags_V, EntryFlags_RSW),
      BitOr(EntryFlags_V, EntryFlags_PPN_0) }

\* the words Entry(bits) is built from
EntryBitsInputs ==
    { {}, Bit(0), BitOr(Bit(31), BITS(2)), Bit(8), Bit(9), BitOr(Bit(10), Bit(0)),
      Bit(53), Bit(54), Bit(60), Bit(61), Bit(63), BITS(64),
      BitOr(BitsFromTo(10, 53), BITS(8)) }

\* the Permission values: every combination of R, W, X
PermissionInputs == SUBSET Permission_RWX

\* the flags is_leaf is asked about: those of insert_child_table and those
\* map_addr builds for each Permission
LeafFlagsInputs ==
    { ChildTableFlags }
    \cup { EntryFlagsBuilder_build(
              EntryFlagsBuilder_with_permissions(
                  EntryFlagsBuilder_valid(EntryFlags_builder, TRUE), perm)) :
            perm \in PermissionInputs }

\* the addresses VirtualAddress::new is called with
VirtualAddressInputs ==
    { {}, Bit(0), BITS(12), Bit(12), Bit(20), Bit(21), Bit(29), Bit(30), Bit(38), Bit(39),
      Bit(47), BITS(48),
      BitOr(Bit(42), BitOr(Bit(32), BitOr(Bit(22), BitOr(Bit(12), Bit(4))))),
      BitOr(BitsFromTo(39, 47), BitsFromTo(12, 20)),
      BitOr(BitsFromTo(21, 38), BitsFromTo(3, 9)),
      Bit(48), Bit(63), BitOr(Bit(48), Bit(12)), BitOr(Bit(56), BITS(48)), BITS(64),
      BitsFromTo(48, 63) }

InitEntry ==
    /\ IdleRegions
    /\ panicked = FALSE
    /\ overflow_checks = TRUE
    /\ IdleBigPages
    /\ IdlePageTable
    /\ IdleEntry

\* Entry::new(address, flags), then address() and flags() of the entry
EntryNew(address, flags) ==
    LET entry == Entry_new(address, flags)
    IN  /\ en = NoEn
        /\ en' = [op |-> "Entry_new", address |-> address, flags |-> flags, entry |-> entry,
                  address_out |-> Entry_address(entry), flags_out |-> Entry_flags(entry)]
        /\ UNCHANGED <<regionVars, bigPageVars, pageTableVars, panicked>>

\* Entry(bits), then address() and flags() of the entry
EntryOf(bits) ==
    /\ en = NoEn
    /\ en' = [op |-> "Entry", entry |-> bits,
              address_out |-> Entry_address(bits), flags_out |-> Entry_flags(bits)]
    /\ UNCHANGED <<regionVars, bigPageVars, pageTableVars, panicked>>

\* EntryFlags::builder().valid(true).with_permissions(perm).build()
WithPermissions(perm) ==
    /\ en = NoEn
    /\ en' = [op |-> "with_permissions", perm |-> perm,
              flags |-> EntryFlagsBuilder_build(
                            EntryFlagsBuilder_with_permissions(
                                EntryFlagsBuilder_valid(EntryFlags_builder, TRUE), perm))]
    /\ UNCHANGED <<regionVars, bigPageVars, pageTableVars, panicked>>

\* Permissions::try_new(read, write, execute)
TryNew(read, write, execute) ==
    /\ en = NoEn
    /\ en' = [op |-> "try_new", read |-> read, write |-> write, execute |-> execute,
              result |-> Permissions_try_new(read, write, execute)]
    /\ UNCHANGED <<regionVars, bigPageVars, pageTableVars, panicked>>

\* flags.is_leaf()
IsLeaf(flags) ==
    /\ en = NoEn
    /\ en' = [op |-> "is_leaf", flags |-> flags, result |-> EntryFlags_is_leaf(flags)]
    /\ UNCHANGED <<regionVars, bigPageVars, pageTableVars, panicked>>

\* VirtualAddress::new(address)
VirtualAddressNew(address) ==
    /\ en = NoEn
    /\ en' = [op |-> "VirtualAddress_new", address |-> address,
              result |-> VirtualAddress_new(address)]
    /\ UNCHANGED <<regionVars, bigPageVars, pageTableVars, panicked>>

\* the addresses PhysicalAddr's accessors are called on
PhysicalAddrInputs ==
    { {}, BITS(64), Bit(0), BITS(12), Bit(12), Bit(20), Bit(21), Bit(29), Bit(30), Bit(55),
      Bit(56), BitOr(Bit(31), Bit(12)), BitOr(BitsFromTo(30, 55), BITS(9)),
      BitOr(Bit(33), BitOr(Bit(22), BitOr(Bit(13), Bit(2)))) }

\* the offsets for_offset is called with
OffsetInputs ==
    { {}, Bit(12), Bit(30), BitOr(Bit(31), BitOr(Bit(21), Bit(12))), BitsFromTo(12, 55) }

\* the flags the setters have set to true: valid, readable, writable, executable
SetterInputs ==
    { {}, EntryFlags_V, BitOr(EntryFlags_V, EntryFlags_R),
      BitOr(EntryFlags_V, BitOr(EntryFlags_R, EntryFlags_W)),
      BitOr(EntryFlags_V, BitOr(EntryFlags_R, BitOr(EntryFlags_W, EntryFlags_X))) }

\* the ranges MemoryRange::cmp is called on
MemoryRangeInputs ==
    { r \in [start : 0..MaxAddr, end : 0..MaxAddr] : r.start <= r.end }

\* level.up(), level.down(), level.top(), level.bottom()
PageLevelCall(level) ==
    /\ en = NoEn
    /\ en' = [op |-> "PageLevel", level |-> level,
              up |-> PageLevel_up(level), down |-> PageLevel_down(level),
              top |-> PageLevel_top(level), bottom |-> PageLevel_bottom(level)]
    /\ UNCHANGED <<regionVars, bigPageVars, pageTableVars, panicked>>

\* PhysicalAddr(address).page_offset(), .ppn0(), .ppn1(), .ppn2()
PhysicalAddrCall(address) ==
    /\ en = NoEn
    /\ en' = [op |-> "PhysicalAddr", address |-> address,
              page_offset |-> PhysicalAddr_page_offset(address),
              ppn0 |-> PhysicalAddr_ppn0(address),
              ppn1 |-> PhysicalAddr_ppn1(address),
              ppn2 |-> PhysicalAddr_ppn2(address)]
    /\ UNCHANGED <<regionVars, bigPageVars, pageTableVars, panicked>>

\* the setters valid(true), readable(true), writable(true), executable(true)
\* for the flags of `set`, applied to the builder's entry
ApplySetters(entry, set) ==
    LET v == IF BitAnd(set, EntryFlags_V) # {} THEN EntryFlagsBuilder_valid(entry, TRUE) ELSE entry
        r == IF BitAnd(set, EntryFlags_R) # {} THEN EntryFlagsBuilder_readable(v, TRUE) ELSE v
        w == IF BitAnd(set, EntryFlags_W) # {} THEN EntryFlagsBuilder_writable(r, TRUE) ELSE r
    IN  IF BitAnd(set, EntryFlags_X) # {} THEN EntryFlagsBuilder_executable(w, TRUE) ELSE w

\* EntryFlags::builder(), then for_offset(offset) before or after the
\* setters, then build()
ForOffset(offset, set, offset_first) ==
    LET r == IF offset_first
             THEN LET o == EntryFlagsBuilder_for_offset(EntryFlags_builder, offset)
                  IN  [ok |-> o.ok, val |-> ApplySetters(o.val, set)]
             ELSE EntryFlagsBuilder_for_offset(ApplySetters(EntryFlags_builder, set), offset)
    IN  /\ en = NoEn
        /\ en' = [op |-> "for_offset", offset |-> offset, set |-> set,
                  offset_first |-> offset_first, ok |-> r.ok,
                  result |-> EntryFlagsBuilder_build(r.val)]
        /\ panicked' = ~r.ok
        /\ UNCHANGED <<regionVars, bigPageVars, pageTableVars>>

\* a.cmp(&b) and b.cmp(&a)
Cmp(a, b) ==
    /\ en = NoEn
    /\ en' = [op |-> "cmp", self |-> a, other |-> b,
              result |-> MemoryRange_cmp(a, b), reverse |-> MemoryRange_cmp(b, a)]
    /\ UNCHANGED <<regionVars, bigPageVars, pageTableVars, panicked>>

NextEntry ==
    \/ \E address \in EntryAddressInputs, flags \in EntryFlagsInputs : EntryNew(address, flags)
    \/ \E bits \in EntryBitsInputs : EntryOf(bits)
    \/ \E perm \in PermissionInputs : WithPermissions(perm)
    \/ \E read \in BOOLEAN, write \in BOOLEAN, execute \in BOOLEAN : TryNew(read, write, execute)
    \/ \E flags \in LeafFlagsInputs : IsLeaf(flags)
    \/ \E address \in VirtualAddressInputs : VirtualAddressNew(address)
    \/ \E level \in PageLevel : PageLevelCall(level)
    \/ \E address \in PhysicalAddrInputs : PhysicalAddrCall(address)
    \/ \E offset \in OffsetInputs, set \in SetterInputs, offset_first \in BOOLEAN :
          ForOffset(offset, set, offset_first)
    \/ \E a \in MemoryRangeInputs, b \in MemoryRangeInputs : Cmp(a, b)

SpecEntry == InitEntry /\ [][NextEntry]_vars

----------------------------------------------------------------------------
(* Claims about the coalescer *)

\* a is a multiple of the power of two s
IsMultipleOf(a, s) == \A i \in a : \A k \in s : i >= k

\* the address one past the interval of a BigPage
PageLimit(page) == WrappingAdd(BigPage_position(page), BigPage_size(page))

\* the intervals of the pages of out are consecutive and begin at start
Consecutive(out, start) ==
    /\ out # <<>> => BigPage_position(out[1]) = start
    /\ \A i \in 1..Len(out) :
          /\ Lt(BigPage_position(out[i]), PageLimit(out[i]))
          /\ i < Len(out) => BigPage_position(out[i + 1]) = PageLimit(out[i])

\* the pages of out, consecutive from start, end exactly at limit
TilesExactly(out, start, limit) ==
    /\ Consecutive(out, start)
    /\ IF out = <<>> THEN start = limit ELSE PageLimit(out[Len(out)]) = limit

\* end rounded up to the next multiple of 4KiB
RoundUp4K(end) ==
    IF IsMultipleOf(end, Bit(12)) THEN end ELSE WrappingAdd(end \ BITS(12), Bit(12))

\* that rounding does not fit in 64 bits
RoundUp4KOverflows(end) == ~IsMultipleOf(end, Bit(12)) /\ (12..63) \subseteq end

\* C8, as claimed: for start <= end and start 4KiB-aligned, the pages yielded
\* by big_pages() are consecutive, begin at start and end exactly at end.
C8_TilesStartToEnd ==
    (bp_pc = "done" /\ Le(bp_self.start, bp_self.end) /\ IsMultipleOf(bp_self.start, Bit(12)))
        => TilesExactly(bp_out, bp_self.start, bp_self.end)

\* C8, amended: for start <= end and start 4KiB-aligned, the pages yielded by
\* big_pages() are consecutive, begin at start and end exactly at end rounded
\* up to the next 4KiB boundary (at end itself when end is 4KiB-aligned),
\* whenever that rounding fits in 64 bits; until the iterator is exhausted
\* the pages yielded so far are consecutive from start.
C8_TilesStartToPageEnd ==
    (bp_pc \in {"iter", "done"} /\ Le(bp_self.start, bp_self.end)
        /\ IsMultipleOf(bp_self.start, Bit(12)) /\ ~RoundUp4KOverflows(bp_self.end))
        => /\ Consecutive(bp_out, bp_self.start)
           /\ bp_pc = "done" => TilesExactly(bp_out, bp_self.start, RoundUp4K(bp_self.end))

\* an exhausted iterator yielded units of two sizes over a range whose end is
\* not 4KiB-aligned
C8_Witness ==
    /\ bp_pc = "done"
    /\ Lt(bp_self.start, bp_self.end)
    /\ IsMultipleOf(bp_self.start, Bit(12))
    /\ ~IsMultipleOf(bp_self.end, Bit(12))
    /\ \E i, j \in 1..Len(bp_out) : bp_out[i].kind # bp_out[j].kind

\* the sizes of PAGE_LEVELS
SupportedSizes == {PAGE_LEVELS[i][2] : i \in 1..Len(PAGE_LEVELS)}

C10_PositionAligned ==
    /\ \A i \in 1..Len(bp_out) : IsMultipleOf(BigPage_position(bp_out[i]), BigPage_size(bp_out[i]))
    /\ (pf.op \in {"page_for", "new"} /\ pf.result # Panicked)
          => IsMultipleOf(BigPage_position(pf.result), BigPage_size(pf.result))

\* the number k of PageLevel::Level k
LevelNumber(level) ==
    CASE level = "Level0" -> 0
      [] level = "Level1" -> 1
      [] level = "Level2" -> 2
      [] level = "Level3" -> 3

\* C11: size() of Page, MegaPage, GigaPage, TeraPage is 2^12, 2^21, 2^30,
\* 2^39: each is 512 times the next smaller one and is the address span
\* 2^(12 + 9k) of one entry of a table at level() = Level k.
C11_SizesArePowersOf512 ==
    pf.op = "new" =>
        LET k == LevelNumber(BigPage_level(pf.result))
        IN  /\ BigPage_size(pf.result) = Bit(12 + 9 * k)
            /\ k > 0 => BigPage_size(pf.result)
                           = Shl(BigPage_size(BigPage_new(PAGE_LEVELS[k][1], {})), 9)

\* C12: page_for panics only when no supported size is both <= at_most and a
\* divisor of position; for a 4KiB-aligned position with at_most >= 4096 it
\* does not panic, and so the page_for call of every next() of a big_pages()
\* iterator over a range with 4KiB-aligned start does not panic.
C12_PageForPanicsOnlyWithoutMatch ==
    /\ pf.op = "page_for" =>
          /\ (pf.result = Panicked) <=>
                 ~\E s \in SupportedSizes : Le(s, pf.at_most) /\ IsMultipleOf(pf.position, s)
          /\ (IsMultipleOf(pf.position, Bit(12)) /\ Le(Bit(12), pf.at_most))
                 => pf.result # Panicked
    /\ (bp_pc = "iter" /\ IsMultipleOf(bp_self.start, Bit(12)) /\ Lt(bp_current, bp_end))
          => /\ IsMultipleOf(bp_current, Bit(12))
             /\ Le(Bit(12), WrappingSub(bp_end, bp_current))
             /\ page_for(bp_current, WrappingSub(bp_end, bp_current)) # Panicked

\* an iterator over a range with 4KiB-aligned start has yielded a unit and
\* is left with exactly one 4KiB page, which only the smallest size matches
C12_Witness ==
    /\ bp_pc = "iter"
    /\ ~panicked
    /\ IsMultipleOf(bp_self.start, Bit(12))
    /\ Len(bp_out) >= 1
    /\ WrappingSub(bp_end, bp_current) = Bit(12)

----------------------------------------------------------------------------
(* Claims about the registry *)

\* the claims' own reading of "a and b overlap"
Intersect(s1, e1, s2, e2) == s1 < e2 /\ e1 > s2

\* C1: after any sequence of add calls from new(), the stored list is sorted
\* by ascending start address and no two distinct stored regions overlap.
C1_SortedNonOverlapping ==
    /\ \A i, j \in 1..Len(regions) : i < j => regions[i].address < regions[j].address
    /\ \A i, j \in 1..Len(regions) :
          i # j => ~Intersect(regions[i].address, regions[i].end,
                              regions[j].address, regions[j].end)

\* a successful add placed its region in front of regions stored earlier
C1_Witness ==
    /\ ret = "true"
    /\ Len(regions) = MaxRegions
    /\ \E k \in 1..(Len(regions) - 1) :
          regions[k].address = call.start /\ regions[k].end = call.end

\* C2: an add call that returns false (empty range, or overlap with a stored
\* region) leaves the stored list exactly as it was: same regions, same order.
C2_RejectLeavesUnchanged ==
    [][ret' = "false" => regions' = regions]_vars

\* an overlapping add on a list of two regions was rejected
C2_Witness ==
    /\ ret = "false"
    /\ call.start < call.end
    /\ Len(regions) >= 2
    /\ \E i \in 1..Len(regions) :
          Intersect(call.start, call.end, regions[i].address, regions[i].end)

\* the list s with its k-th element removed
RemoveAt(s, k) == SubSeq(s, 1, k - 1) \o SubSeq(s, k + 1, Len(s))

\* C3: with start <= end, add returns true exactly when start < end and no
\* stored region intersects the range (ranges that only touch are accepted);
\* on true the list gains exactly one region with the given start, end,
\* description and permission and maps_to = None.
C3_AddAcceptsExactlyDisjoint ==
    [][call'.start <= call'.end =>
        /\ (ret' = "true") <=>
              /\ call'.start < call'.end
              /\ \A i \in 1..Len(regions) :
                    ~Intersect(call'.start, call'.end, regions[i].address, regions[i].end)
        /\ ret' = "true" =>
              \E k \in 1..Len(regions') :
                 /\ regions'[k] = [address |-> call'.start, end |-> call'.end,
                                   desc |-> call'.desc, perms |-> call'.perms,
                                   maps_to |-> "None"]
                 /\ RemoveAt(regions', k) = regions
      ]_regionVars

\* a range touching a stored region on each side was accepted
C3_Witness ==
    /\ ret = "true"
    /\ \E i, j \in 1..Len(regions) :
          regions[i].end = call.start /\ regions[j].address = call.end

\* C23: an add call with start > end panics, it returns neither true nor
\* false, and the stored list is left as it was.
C23_InvertedRangePanics ==
    [][call'.start > call'.end =>
          /\ ret' = "panic"
          /\ panicked'
          /\ regions' = regions
      ]_vars

\* an inverted range was given to a list that already stores regions
C23_Witness ==
    /\ ret = "panic"
    /\ panicked
    /\ call.start > call.end
    /\ Len(regions) >= 2

----------------------------------------------------------------------------
(* Claims about the page table *)

\* the 9-bit field of virt that indexes the table of level k (bits 12+9k .. 20+9k)
VpnIndex(virt, k) == ToNat({i - (12 + 9 * k) : i \in virt \cap ((12 + 9 * k)..(20 + 9 * k))})

\* the entry is valid
IsValid(entry) == 0 \in entry

\* the entry is valid and a leaf: one of R, W, X is set
IsValidLeaf(entry) == IsValid(entry) /\ entry \cap {1, 2, 3} # {}

\* the entry is a valid intermediate entry that points to a table of m
IsValidPointer(m, entry) ==
    IsValid(entry) /\ entry \cap {1, 2, 3} = {} /\ Entry_address(entry) \in DOMAIN m.mem

\* the entries the walk for virt selects at Level3 .. Level0 (each defined
\* when the ones above it are valid pointers)
Walk3(m, root, virt) == m.mem[root][VpnIndex(virt, 3)]
Walk2(m, root, virt) == m.mem[Entry_address(Walk3(m, root, virt))][VpnIndex(virt, 2)]
Walk1(m, root, virt) == m.mem[Entry_address(Walk2(m, root, virt))][VpnIndex(virt, 1)]
Walk0(m, root, virt) == m.mem[Entry_address(Walk1(m, root, virt))][VpnIndex(virt, 0)]

\* the walk for virt passes three valid intermediate entries
ReachesLevel0(m, root, virt) ==
    /\ IsValidPointer(m, Walk3(m, root, virt))
    /\ IsValidPointer(m, Walk2(m, root, virt))
    /\ IsValidPointer(m, Walk1(m, root, virt))

\* the page of virt is mapped: the walk ends at a valid Level0 entry
IsMapped(m, root, virt) ==
    ReachesLevel0(m, root, virt) /\ IsValid(Walk0(m, root, virt))

\* the walk for virt meets a valid leaf at Level3, Level2 or Level1
HugePageOnPath(m, root, virt) ==
    \/ IsValidLeaf(Walk3(m, root, virt))
    \/ /\ IsValidPointer(m, Walk3(m, root, virt))
       /\ \/ IsValidLeaf(Walk2(m, root, virt))
          \/ /\ IsValidPointer(m, Walk2(m, root, virt))
             /\ IsValidLeaf(Walk1(m, root, virt))

\* the last step was a map_addr call that returned
MapAddrReturned == pt_call.op = "map_addr" /\ ~panicked

\* the entry the walk for virt selects at Level k
WalkAt(m, root, virt, k) ==
    CASE k = 3 -> Walk3(m, root, virt)
      [] k = 2 -> Walk2(m, root, virt)
      [] k = 1 -> Walk1(m, root, virt)
      [] k = 0 -> Walk0(m, root, virt)

\* the walk for virt passes valid intermediate entries at every level above k
ReachesLevel(m, root, virt, k) ==
    /\ k < 3 => IsValidPointer(m, Walk3(m, root, virt))
    /\ k < 2 => IsValidPointer(m, Walk2(m, root, virt))
    /\ k < 1 => IsValidPointer(m, Walk1(m, root, virt))

\* the units of the big_pages() sequence of a region
UnitsOf(region) == big_pages([start |-> region.address, end |-> region.end], TRUE).out

\* C13: after map_all on a fresh root, for every region of the registry
\* (none of which has maps_to) and every unit of its big_pages() sequence,
\* the walk for the unit's position ends at the level of the unit's size
\* (Level0 for Page .. Level3 for TeraPage) in a valid entry whose address is
\* the position (identity) and whose R, W, X bits are the region's permission.
C13_MapAllInstallsUnits ==
    (pt_call.op = "map_all" /\ pt_nops = 1 /\ ~panicked) =>
        \A i \in 1..Len(pt_call.regions) :
            LET region == pt_call.regions[i]
                units == UnitsOf(region)
            IN  \A j \in 1..Len(units) :
                    LET k == LevelNumber(BigPage_level(units[j]))
                        position == BigPage_position(units[j])
                        entry == WalkAt(memory, pt_root, position, k)
                    IN  /\ ReachesLevel(memory, pt_root, position, k)
                        /\ IsValid(entry)
                        /\ Entry_address(entry) = position
                        /\ BitAnd(entry, BitOr(EntryFlags_R, BitOr(EntryFlags_W, EntryFlags_X)))
                              = Shl(region.perms, 1)

\* the valid non-leaf entries, as (table, index), of the allocated tables
\* that hold the address of table t
ReferencesTo(m, t) ==
    { <<p, i>> \in (DOMAIN m.mem) \X (0..(PAGE_ENTRIES - 1)) :
          /\ IsValid(m.mem[p][i])
          /\ BitAnd(m.mem[p][i], BitOr(EntryFlags_R, BitOr(EntryFlags_W, EntryFlags_X))) = {}
          /\ Entry_address(m.mem[p][i]) = t }

\* C20: after any sequence of mapping calls, every allocated table but the
\* root is referenced by exactly one valid entry of one allocated table.
C20_TablesOwnedOnce ==
    ~panicked =>
        \A t \in (DOMAIN memory.mem) \ {pt_root} :
            Cardinality(ReferencesTo(memory, t)) = 1

\* C4: on a fresh root, after one successful map_addr(phys, virt, perm) with
\* phys page-aligned, the walk for virt passes a valid intermediate entry at
\* Level3, Level2 and Level1 and ends at a valid Level0 entry whose address()
\* is phys.
C4_WalkReachesPhys ==
    (pt_nops = 1 /\ MapAddrReturned /\ IsMultipleOf(pt_call.addr, Bit(12)))
        => /\ IsMapped(memory, pt_root, pt_call.to)
           /\ Entry_address(Walk0(memory, pt_root, pt_call.to)) = pt_call.addr

\* C5: the leaf entry map_addr installed decodes, through
\* flags().permissions(), to the R, W, X bits of the perm passed.
C5_PermissionRoundTrip ==
    (MapAddrReturned /\ ReachesLevel0(memory, pt_root, pt_call.to))
        => EntryFlags_permissions(Entry_flags(Walk0(memory, pt_root, pt_call.to)))
              = [read    |-> 0 \in pt_call.perm,
                 write   |-> 1 \in pt_call.perm,
                 execute |-> 2 \in pt_call.perm]

\* C6: a map_addr call whose virt lies in an already mapped page panics, and
\* the leaf entry of that page is not overwritten.
C6_RemapIsFatal ==
    [][(pt_call'.op = "map_addr" /\ pt_nops' = pt_nops + 1
            /\ IsMapped(memory, pt_root, pt_call'.to))
        => /\ panicked'
           /\ Walk0(memory', pt_root, pt_call'.to) = Walk0(memory, pt_root, pt_call'.to)
      ]_vars

\* C7: a map_addr call that meets a valid leaf at Level3, Level2 or Level1
\* panics; it does not take the leaf's address for a child table and writes
\* nothing through it.
C7_HugePageIsFatal ==
    [][(pt_call'.op = "map_addr" /\ pt_nops' = pt_nops + 1
            /\ HugePageOnPath(memory, pt_root, pt_call'.to))
        => /\ panicked'
           /\ memory'.wild = memory.wild
           /\ memory'.mem = memory.mem
      ]_vars

\* C25: every map_addr call returns, having visited one table at each of
\* Level3, Level2, Level1 and Level0, four different tables, and having
\* allocated at most three tables.
C25_WalkVisitsFourTables ==
    [][pt_call'.op = "map_addr" /\ pt_nops' = pt_nops + 1 =>
          /\ ~panicked'
          /\ Len(pt_call'.visited) = 4
          /\ \A i, j \in 1..Len(pt_call'.visited) :
                i # j => pt_call'.visited[i] # pt_call'.visited[j]
          /\ memory'.nalloc - memory.nalloc <= 3
      ]_vars

\* the page of a virtual address: the address without its offset
PageOf(virt) == BitAnd(virt, BitNot(BITS(12)))

\* the slots, as (table, index), the walk for virt selects at Level3 .. Level0
PathSlots(m, root, virt) ==
    { <<root, VpnIndex(virt, 3)>>,
      <<Entry_address(Walk3(m, root, virt)), VpnIndex(virt, 2)>>,
      <<Entry_address(Walk2(m, root, virt)), VpnIndex(virt, 1)>>,
      <<Entry_address(Walk1(m, root, virt)), VpnIndex(virt, 0)>> }

\* the entry of slot (table, index) before the step: empty in a table the
\* step allocated
EntryBefore(m, table, index) ==
    IF table \in DOMAIN m.mem THEN m.mem[table][index] ELSE Entry_empty

\* C26: a map_addr call that returns leaves every page mapped before it,
\* other than the page of its `to`, mapped by a Level0 entry of the same
\* value, and writes nothing but the Level0 slot of `to` and the slots on
\* the path of `to` that were invalid before: every other entry of every
\* table keeps its value and no memory outside the tables is written.
C26_MapAddrFrame ==
    [][(pt_call'.op = "map_addr" /\ pt_nops' = pt_nops + 1 /\ ~panicked') =>
          /\ \A v \in VirtInputs :
                (IsMapped(memory, pt_root, v) /\ PageOf(v) # PageOf(pt_call'.to)) =>
                    /\ IsMapped(memory', pt_root, v)
                    /\ Walk0(memory', pt_root, v) = Walk0(memory, pt_root, v)
          /\ \A table \in DOMAIN memory'.mem :
                \A index \in 0..(PAGE_ENTRIES - 1) :
                    memory'.mem[table][index] # EntryBefore(memory, table, index) =>
                        /\ ReachesLevel0(memory', pt_root, pt_call'.to)
                        /\ <<table, index>> \in PathSlots(memory', pt_root, pt_call'.to)
                        /\ \/ table = Entry_address(Walk1(memory', pt_root, pt_call'.to))
                           \/ ~IsValid(EntryBefore(memory, table, index))
          /\ memory'.stray = memory.stray
      ]_vars

\* the tables that valid intermediate entries of the tables of T point to
TablesBelow(m, T) ==
    { Entry_address(m.mem[x[1]][x[2]]) :
        x \in { y \in T \X (0..(PAGE_ENTRIES - 1)) : IsValidPointer(m, m.mem[y[1]][y[2]]) } }

\* the Level0 tables under root
Level0Tables(m, root) == TablesBelow(m, TablesBelow(m, TablesBelow(m, {root})))

\* C28: after map_addr and map_all calls every valid entry of a Level0
\* table has one of R, W, X set; no page, of a Permission::NONE region or
\* other, is a valid Level0 entry with R, W and X clear.
C28_Level0EntriesAreLeaves ==
    (~panicked /\ pt_call.op \in {"map_addr", "map_all"}) =>
        \A table \in Level0Tables(memory, pt_root) :
            \A index \in 0..(PAGE_ENTRIES - 1) :
                IsValid(memory.mem[table][index]) => IsValidLeaf(memory.mem[table][index])

\* the virtual addresses map_addr has mapped
MappedVirts == { v \in PrefixVirtInputs : IsMapped(memory, pt_root, v) }

\* C27: after any sequence of map_addr calls on a fresh root, the number of
\* tables other than the root is the number of distinct (vpn_3), (vpn_3,
\* vpn_2) and (vpn_3, vpn_2, vpn_1) prefixes of the mapped addresses.
C27_TablesArePrefixes ==
    ~panicked =>
        /\ Cardinality(DOMAIN memory.mem) = memory.nalloc
        /\ memory.nalloc - 1 =
              Cardinality({ <<VpnIndex(v, 3)>> : v \in MappedVirts })
            + Cardinality({ <<VpnIndex(v, 3), VpnIndex(v, 2)>> : v \in MappedVirts })
            + Cardinality({ <<VpnIndex(v, 3), VpnIndex(v, 2), VpnIndex(v, 1)>> :
                              v \in MappedVirts })

\* two calls mapped pages that share the Level3 and Level2 entries only
C27_Witness ==
    /\ ~panicked
    /\ pt_nops = 2
    /\ Cardinality(MappedVirts) = 2
    /\ memory.nalloc - 1 = 4

----------------------------------------------------------------------------
(* Claims about Entry, EntryFlags and VirtualAddress *)

\* the bits of an entry the architecture reads as the physical page number
PpnField == BitsFromTo(10, 53)

\* C14: Entry::new(address, flags) is a word in the architecture's layout:
\* bits 10 to 53 hold the physical page number address >> 12, and the bits
\* outside that field are those of flags.
C14_EntryLayout ==
    en.op = "Entry_new" =>
        /\ Shr(BitAnd(en.entry, PpnField), 10) = BitAnd(Shr(en.address, 12), BITS(44))
        /\ BitAnd(en.entry, BitNot(PpnField)) = BitAnd(en.flags, BitNot(PpnField))

\* C15: Entry::new(p, f).address() is the page-number part of p (p without
\* its low 12 bits) whatever f is, and Entry::new(p, f).flags() is the same
\* for p and for p with its low 12 bits cleared.
C15_AddressAndFlagsIndependent ==
    en.op = "Entry_new" =>
        /\ en.address_out = BitAnd(en.address, BitNot(OFFSET_MASK))
        /\ en.address_out = Entry_address(Entry_new(en.address, EntryFlags_empty))
        /\ en.flags_out = Entry_flags(Entry_new(BitAnd(en.address, BitNot(OFFSET_MASK)), en.flags))

\* C16: for every Entry word, address() and flags() have no bit in common
\* and address() | flags() is the whole word.
C16_AddressFlagsPartition ==
    en.op \in {"Entry_new", "Entry"} =>
        /\ BitAnd(en.address_out, en.flags_out) = {}
        /\ BitOr(en.address_out, en.flags_out) = en.entry

\* C17: is_leaf() is true exactly when one of R, W, X is set: false for the
\* flags insert_child_table writes, true for the flags written with
\* permission R, RW, RX or RWX.
C17_IsLeafIffPermission ==
    en.op = "is_leaf" =>
        en.result = (BitAnd(en.flags, BitOr(EntryFlags_R, BitOr(EntryFlags_W, EntryFlags_X))) # {})

\* C18: no flags built from a Permission have W set and R clear, and
\* Permissions::try_new returns None for write && !read.
C18_WriteImpliesRead ==
    /\ en.op = "with_permissions" =>
          ~(BitAnd(en.flags, EntryFlags_W) # {} /\ BitAnd(en.flags, EntryFlags_R) = {})
    /\ en.op = "try_new" =>
          ((en.write /\ ~en.read) => en.result = NoPermissions)

\* the 9-bit field of address at bits 12+9k .. 20+9k
Field9(address, k) == {i - (12 + 9 * k) : i \in address \cap ((12 + 9 * k)..(20 + 9 * k))}

\* C19: VirtualAddress::new(a) is Some for a < 2^48 and None when a bit
\* above bit 47 is set; for a < 2^48, offset_in_vpn() + (vpn_0() << 12) +
\* (vpn_1() << 21) + (vpn_2() << 30) + (vpn_3() << 39) = a and
\* vpn_for_level(Level k) is the 9-bit field at bits 12+9k to 20+9k.
C19_VirtualAddressDecomposes ==
    en.op = "VirtualAddress_new" =>
        IF en.address \subseteq BITS(48)
        THEN /\ en.result = Some(en.address)
             /\ LET v == en.result.val
                IN  /\ WrappingAdd(offset_in_vpn(v),
                         WrappingAdd(Shl(vpn_0(v), 12),
                         WrappingAdd(Shl(vpn_1(v), 21),
                         WrappingAdd(Shl(vpn_2(v), 30), Shl(vpn_3(v), 39))))) = en.address
                    /\ offset_in_vpn(v) = en.address \cap BITS(12)
                    /\ \A level \in PageLevel :
                          vpn_for_level(v, level) = Field9(en.address, LevelNumber(level))
        ELSE en.result = NoAddress

\* VirtualAddress::new returned Some for an address whose offset and four
\* page-number fields are all non-zero and pairwise different
C19_Witness ==
    /\ en.op = "VirtualAddress_new"
    /\ en.result.some
    /\ offset_in_vpn(en.result.val) # {}
    /\ \A level \in PageLevel : vpn_for_level(en.result.val, level) # {}
    /\ \A l1, l2 \in PageLevel :
          l1 # l2 => vpn_for_level(en.result.val, l1) # vpn_for_level(en.result.val, l2)

\* C22: bottom() is true only for Level0 and top() only for Level3;
\* bottom() iff down() is None, top() iff up() is None; up() undoes down()
\* and down() undoes up() wherever they are defined.
C22_TopAndBottom ==
    en.op = "PageLevel" =>
        /\ en.bottom <=> en.level = "Level0"
        /\ en.top <=> en.level = "Level3"
        /\ en.bottom <=> en.down = "None"
        /\ en.top <=> en.up = "None"
        /\ en.down # "None" => PageLevel_up(en.down) = en.level
        /\ en.up # "None" => PageLevel_down(en.up) = en.level

\* the bits lo..hi of address, shifted down to bit 0
BitField(address, lo, hi) == {i - lo : i \in address \cap (lo..hi)}

\* C24: page_offset() is address bits 0..11, ppn0() bits 12..20, ppn1() bits
\* 21..29 and ppn2() bits 30..55, each shifted down to bit 0.
C24_PhysicalAddrFields ==
    en.op = "PhysicalAddr" =>
        /\ en.page_offset = BitField(en.address, 0, 11)
        /\ en.ppn0 = BitField(en.address, 12, 20)
        /\ en.ppn1 = BitField(en.address, 21, 29)
        /\ en.ppn2 = BitField(en.address, 30, 55)

\* C29: after for_offset(offset) and the setters, in either order, the
\* builder's PPN_0, PPN_1 and PPN_2 fields hold bits 12..20, 21..29 and
\* 30..55 of offset and the flags the setters set are still set.
C29_ForOffsetKeepsFlags ==
    en.op = "for_offset" =>
        /\ en.ok
        /\ BitAnd(en.result, EntryFlags_PPN_0) = Shl(BitField(en.offset, 12, 20), 10)
        /\ BitAnd(en.result, EntryFlags_PPN_1) = Shl(BitField(en.offset, 21, 29), 19)
        /\ BitAnd(en.result, EntryFlags_PPN_2) = Shl(BitField(en.offset, 30, 55), 28)
        /\ BitAnd(en.result, BitNot(EntryFlags_PPN)) = en.set

\* C30: for two non-empty ranges cmp returns Equal exactly when they
\* overlap, Less exactly when self.end <= other.start, Greater exactly when
\* self.start >= other.end, and cmp(b, a) is the reverse of cmp(a, b).
C30_CmpIsOverlapOrder ==
    (en.op = "cmp" /\ en.self.start < en.self.end /\ en.other.start < en.other.end) =>
        /\ (en.result = "Equal") <=>
               (en.self.start < en.other.end /\ en.other.start < en.self.end)
        /\ (en.result = "Less") <=> (en.self.end <= en.other.start)
        /\ (en.result = "Greater") <=> (en.self.start >= en.other.end)
        /\ en.reverse = CASE en.result = "Less" -> "Greater"
                           [] en.result = "Greater" -> "Less"
                           [] en.result = "Equal" -> "Equal"

\* cmp found two different non-empty ranges that only touch, self first
C30_Witness ==
    /\ en.op = "cmp"
    /\ en.self.start < en.self.end
    /\ en.self.end = en.other.start
    /\ en.other.start < en.other.end
    /\ en.result = "Less"

----------------------------------------------------------------------------
(* Claims about activation *)

\* the fields of a satp value: MODE (bits 60..63), ASID (44..59), PPN (0..43)
SatpMode(value) == Shr(value, 60)
SatpAsid(value) == Shr(BitAnd(value, BitsFromTo(44, 59)), 44)
SatpPpn(value) == BitAnd(value, BITS(44))

\* C21: the value set_satp(asid) writes has MODE = 9 in bits 60..63, asid in
\* bits 44..59 and, in bits 0..43, the page number of the root table's
\* physical address (bits 12..55 of the address, shifted down by 12); and
\* once the mode is 9 no step changes it.
C21_SatpFields ==
    [][/\ pt_call'.op = "set_satp" =>
             /\ SatpMode(satp') = FromNat(9)
             /\ SatpAsid(satp') = pt_call'.asid
             /\ SatpPpn(satp') = BitAnd(Shr(pt_root, 12), BITS(44))
       /\ SatpMode(satp) = FromNat(9) => SatpMode(satp') = FromNat(9)
      ]_vars

====
